---- MODULE Spec2Model ----
(***************************************************************************)
(* Shape-and-dataflow model of MFF-Net/DecoderC.py.                        *)
(*                                                                         *)
(* A tensor is a record [kind, shape, src]: its shape as torch reports it  *)
(* and the set of forward() arguments its values are computed from.  An    *)
(* operation that raises yields Err, and every operation applied to Err    *)
(* yields Err, which is how a Python exception cuts the rest of a call.    *)
(***************************************************************************)
EXTENDS Integers, Sequences, FiniteSets, TLC

VARIABLES
    model,   \* DecoderC instance: configuration, parameters, BatchNorm buffers
    args,    \* arguments of the current DecoderC.forward call
    pc,      \* position inside DecoderC.forward
    cur,     \* local x of forward_features
    HW,      \* locals (H, W) of forward_features
    feat,    \* masks computed so far by forward_features
    out,     \* list returned by DecoderC.forward (<<>> while none)
    log,     \* pipeline steps executed by the current call, in order
    calls,   \* completed forward calls on this instance
    err,     \* step at which the current call raised ("none" otherwise)
    unit,    \* component harness: constructed module and its call arguments
    res      \* component harness: results of the calls made so far

dvars == <<model, args, pc, cur, HW, feat, out, log, calls, err>>
hvars == <<unit, res>>
vars == <<model, args, pc, cur, HW, feat, out, log, calls, err, unit, res>>

(***************************************************************************)
(* Bounds of the component harnesses                                       *)
(***************************************************************************)
MaxBatch == 2
MaxTok == 3
MaxSide == 4
MaxCalls == 2

(***************************************************************************)
(* torch tensors and the library operations the file uses                  *)
(***************************************************************************)
T(shape, src) == [kind |-> "t", shape |-> shape, src |-> src]
Err == [kind |-> "err", shape |-> <<>>, src |-> {}]
None == [kind |-> "none", shape |-> <<>>, src |-> {}]

IsT(t) == t.kind = "t"

RECURSIVE Numel(_)
Numel(shape) == IF shape = <<>> THEN 1 ELSE Head(shape) * Numel(Tail(shape))

Rank(t) == Len(t.shape)

\* Tensor.reshape / view with explicit sizes: legal iff the element counts agree
Reshape(t, shape) ==
    IF IsT(t) /\ Numel(t.shape) = Numel(shape) THEN T(shape, t.src) ELSE Err

\* product of the explicit sizes of a reshape target (-1 marks the inferred one)
RECURSIVE Known(_)
Known(shape) ==
    IF shape = <<>> THEN 1
    ELSE (IF Head(shape) = -1 THEN 1 ELSE Head(shape)) * Known(Tail(shape))

\* Tensor.reshape with one size given as -1
ReshapeInfer(t, shape) ==
    IF IsT(t) /\ Known(shape) > 0 /\ Numel(t.shape) % Known(shape) = 0
    THEN T([k \in 1..Len(shape) |->
              IF shape[k] = -1 THEN Numel(t.shape) \div Known(shape) ELSE shape[k]],
           t.src)
    ELSE Err

\* Tensor.transpose(i, j), 1-based positions
Transpose(t, i, j) ==
    IF IsT(t) /\ i <= Rank(t) /\ j <= Rank(t)
    THEN T([k \in 1..Rank(t) |->
              IF k = i THEN t.shape[j] ELSE IF k = j THEN t.shape[i] ELSE t.shape[k]],
           t.src)
    ELSE Err

\* Tensor.permute(p), p a sequence of 1-based positions
Permute(t, p) ==
    IF IsT(t) /\ Len(p) = Rank(t)
    THEN T([k \in 1..Len(p) |-> t.shape[p[k]]], t.src) ELSE Err

\* Tensor.flatten(2): (B, C, H, W) -> (B, C, H*W)
Flatten2(t) ==
    IF IsT(t) /\ Rank(t) = 4
    THEN T(<<t.shape[1], t.shape[2], t.shape[3] * t.shape[4]>>, t.src) ELSE Err

\* nn.Linear(in_f, out_f): acts on the last axis, which must be in_f wide
Linear(t, in_f, out_f) ==
    IF IsT(t) /\ Rank(t) >= 1 /\ t.shape[Rank(t)] = in_f
    THEN T([k \in 1..Rank(t) |-> IF k = Rank(t) THEN out_f ELSE t.shape[k]], t.src)
    ELSE Err

\* nn.LayerNorm(dim): the last axis must be dim wide; shape preserved
LayerNorm(t, dim) ==
    IF IsT(t) /\ Rank(t) >= 1 /\ t.shape[Rank(t)] = dim THEN t ELSE Err

\* broadcasting of two sizes
BDim(a, b) == IF a = b THEN a ELSE IF a = 1 THEN b ELSE IF b = 1 THEN a ELSE 0 - 1

\* broadcasting of two shapes, aligned at the trailing axes
BShape(s1, s2) ==
    LET n == IF Len(s1) >= Len(s2) THEN Len(s1) ELSE Len(s2)
        a == [k \in 1..n |-> IF k > n - Len(s1) THEN s1[k - (n - Len(s1))] ELSE 1]
        b == [k \in 1..n |-> IF k > n - Len(s2) THEN s2[k - (n - Len(s2))] ELSE 1]
    IN  [k \in 1..n |-> BDim(a[k], b[k])]

BOk(s1, s2) == \A k \in 1..Len(BShape(s1, s2)) : BShape(s1, s2)[k] >= 0

\* elementwise a + b
Add(a, b) ==
    IF IsT(a) /\ IsT(b) /\ BOk(a.shape, b.shape)
    THEN T(BShape(a.shape, b.shape), a.src \cup b.src) ELSE Err

\* a @ b on rank-4 operands: (.., n, k) @ (.., k, m), leading axes broadcast
MatMul(a, b) ==
    IF IsT(a) /\ IsT(b) /\ Rank(a) = 4 /\ Rank(b) = 4
       /\ a.shape[4] = b.shape[3]
       /\ BOk(SubSeq(a.shape, 1, 2), SubSeq(b.shape, 1, 2))
    THEN T(BShape(SubSeq(a.shape, 1, 2), SubSeq(b.shape, 1, 2))
             \o <<a.shape[3], b.shape[4]>>, a.src \cup b.src)
    ELSE Err

\* torch.cat([a, b], dim=2) on rank-3 operands
Cat2(a, b) ==
    IF IsT(a) /\ IsT(b) /\ Rank(a) = 3 /\ Rank(b) = 3
       /\ a.shape[1] = b.shape[1] /\ a.shape[2] = b.shape[2]
    THEN T(<<a.shape[1], a.shape[2], a.shape[3] + b.shape[3]>>, a.src \cup b.src)
    ELSE Err

\* output side of a convolution window sliding over `side`
ConvOut(side, k, s, p) == ((side + 2 * p - k) \div s) + 1

\* nn.Conv2d(cin, cout, k, s, p) on (B, cin, H, W)
Conv2d(t, cin, cout, k, s, p) ==
    IF IsT(t) /\ Rank(t) = 4 /\ t.shape[2] = cin
       /\ t.shape[3] + 2 * p >= k /\ t.shape[4] + 2 * p >= k
    THEN T(<<t.shape[1], cout, ConvOut(t.shape[3], k, s, p), ConvOut(t.shape[4], k, s, p)>>,
           t.src)
    ELSE Err

\* nn.Fold(output_size=(os, os), kernel k, stride s, padding p) on (B, C*k*k, L)
Fold(t, os, k, s, p) ==
    IF IsT(t) /\ Rank(t) = 3 /\ t.shape[2] % (k * k) = 0
       /\ os + 2 * p >= k
       /\ t.shape[3] = ConvOut(os, k, s, p) * ConvOut(os, k, s, p)
    THEN T(<<t.shape[1], t.shape[2] \div (k * k), os, os>>, t.src)
    ELSE Err

\* nn.BatchNorm2d forward: in training mode a batch with a single value per
\* channel is rejected; shape preserved
BatchNorm2d(t, training) ==
    IF IsT(t) /\ Rank(t) = 4
       /\ ~(training /\ t.shape[1] * t.shape[3] * t.shape[4] = 1)
    THEN t ELSE Err

\* nn.BatchNorm2d buffers after a forward on a batch computed from `src`
\* the same update applied whatever the mode
BNUpdate_AnyMode(buf, src, training) ==
    [buf EXCEPT !.num_batches_tracked = @ + 1, !.running_src = @ \cup src]

BNUpdate(buf, src, training) ==
    IF training
    THEN [buf EXCEPT !.num_batches_tracked = @ + 1, !.running_src = @ \cup src]
    ELSE buf

(***************************************************************************)
(* CrossAttention                                                          *)
(***************************************************************************)
CrossAttentionInit(dim1, dim2, dim, num_heads) ==
    [dim1 |-> dim1, dim2 |-> dim2, dim |-> dim, num_heads |-> num_heads]

\* the same forward with the batch size read from fea instead of depth_fea
CrossAttentionForward_BatchFromFea(ca, fea, depth_fea) ==
    IF ~(IsT(fea) /\ IsT(depth_fea) /\ Rank(fea) = 3 /\ Rank(depth_fea) = 3) THEN Err
    ELSE
    LET N1 == fea.shape[2]
        B  == fea.shape[1]
        N  == depth_fea.shape[2]
        C  == ca.dim
        hd == C \div ca.num_heads
        q1 == Permute(Reshape(Linear(fea, ca.dim1, C), <<B, N1, ca.num_heads, hd>>),
                      <<1, 3, 2, 4>>)
        k2 == Permute(Reshape(Linear(depth_fea, ca.dim2, C), <<depth_fea.shape[1], N, ca.num_heads, hd>>),
                      <<1, 3, 2, 4>>)
        attn == MatMul(q1, Transpose(k2, 3, 4))
        o  == Reshape(Transpose(MatMul(attn, k2), 2, 3), <<B, N1, C>>)
    IN  Linear(o, C, ca.dim1)

CrossAttentionForward(ca, fea, depth_fea) ==
    IF ~(IsT(fea) /\ IsT(depth_fea) /\ Rank(fea) = 3 /\ Rank(depth_fea) = 3) THEN Err
    ELSE
    LET N1 == fea.shape[2]
        B  == depth_fea.shape[1]
        N  == depth_fea.shape[2]
        C  == ca.dim
        hd == C \div ca.num_heads
        q1 == Permute(Reshape(Linear(fea, ca.dim1, C), <<B, N1, ca.num_heads, hd>>),
                      <<1, 3, 2, 4>>)
        k2 == Permute(Reshape(Linear(depth_fea, ca.dim2, C), <<B, N, ca.num_heads, hd>>),
                      <<1, 3, 2, 4>>)
        v2 == Permute(Reshape(Linear(depth_fea, ca.dim2, C), <<B, N, ca.num_heads, hd>>),
                      <<1, 3, 2, 4>>)
        attn == MatMul(q1, Transpose(k2, 3, 4))
        o  == Reshape(Transpose(MatMul(attn, v2), 2, 3), <<B, N1, C>>)
    IN  Linear(o, C, ca.dim1)

(***************************************************************************)
(* PatchEmbed                                                              *)
(***************************************************************************)
\* heads of the CrossAttention built inside PatchEmbed
InteractHeads == 4

PatchEmbedInit(img_size, patch_size, in_chans, embed_dim, kernel_size, stride, padding, fuse) ==
    [img_size |-> <<img_size, img_size>>,
     patch_size |-> <<patch_size, patch_size>>,
     num_patches |-> (img_size * patch_size) * (img_size * patch_size),
     in_chans |-> in_chans, embed_dim |-> embed_dim,
     kernel_size |-> kernel_size, stride |-> stride, padding |-> padding,
     output_size |-> img_size * stride,
     fuse |-> fuse,
     interact |-> CrossAttentionInit(embed_dim, in_chans, embed_dim, InteractHeads)]

\* the size check switched off
PatchEmbedSizeOk_Off(pe, x) == TRUE

\* the assert on the input size
PatchEmbedSizeOk(pe, x) ==
    x.shape[3] = pe.img_size[1] /\ x.shape[4] = pe.img_size[2]

\* project, fold, local perception unit, flatten, norm
PatchEmbedUpsample(pe, x) ==
    LET k  == pe.kernel_size
        p1 == Linear(Transpose(Flatten2(x), 2, 3), pe.in_chans, pe.in_chans * k * k)
        p2 == Fold(Transpose(p1, 2, 3), pe.output_size, k, pe.stride, pe.padding)
        p3 == Add(Conv2d(p2, pe.in_chans, pe.in_chans, 3, 1, 1), p2)
        p4 == LayerNorm(Transpose(Flatten2(p3), 2, 3), pe.in_chans)
    IN  [project |-> p1, upsample |-> p2, lpu |-> p3, norm |-> p4]

\* the fusion step reading the skip feature whenever one is passed
PatchEmbedFuse_ReadsSkip(pe, x, enc_fea) ==
    IF pe.fuse
    THEN LET f == LayerNorm(Linear(Linear(Cat2(x, enc_fea),
                                          pe.in_chans + pe.embed_dim, pe.in_chans),
                                   pe.in_chans, pe.embed_dim), pe.embed_dim)
         IN  LayerNorm(Add(f, CrossAttentionForward(pe.interact, f, x)), pe.embed_dim)
    ELSE LET g == LayerNorm(Linear(Linear(x, pe.in_chans, pe.in_chans),
                                   pe.in_chans, pe.embed_dim), pe.embed_dim)
         IN  IF IsT(enc_fea) THEN Add(g, enc_fea) ELSE g

\* the fusion step: x is the normalised upsampled tokens (also kept as x0)
PatchEmbedFuse(pe, x, enc_fea) ==
    IF pe.fuse
    THEN LET f == LayerNorm(Linear(Linear(Cat2(x, enc_fea),
                                          pe.in_chans + pe.embed_dim, pe.in_chans),
                                   pe.in_chans, pe.embed_dim), pe.embed_dim)
         IN  LayerNorm(Add(f, CrossAttentionForward(pe.interact, f, x)), pe.embed_dim)
    ELSE LayerNorm(Linear(Linear(x, pe.in_chans, pe.in_chans),
                          pe.in_chans, pe.embed_dim), pe.embed_dim)

\* PatchEmbed.forward: [x, HW, ran]; x is Err when the call raised, ran lists
\* the sub-steps that were entered
PatchEmbedForward(pe, x, enc_fea) ==
    IF ~(IsT(x) /\ Rank(x) = 4) THEN [x |-> Err, HW |-> <<0, 0>>, ran |-> <<>>]
    ELSE IF ~PatchEmbedSizeOk(pe, x) THEN [x |-> Err, HW |-> <<0, 0>>, ran |-> <<>>]
    ELSE
    LET u == PatchEmbedUpsample(pe, x)
        y == PatchEmbedFuse(pe, u.norm, enc_fea)
        H == x.shape[3] * pe.patch_size[1]
        W == x.shape[4] * pe.patch_size[2]
    IN  [x |-> y,
         HW |-> IF IsT(y) THEN <<H, W>> ELSE <<0, 0>>,
         ran |-> <<"project">>
                 \o (IF IsT(u.project) THEN <<"upsample">> ELSE <<>>)
                 \o (IF IsT(u.upsample) THEN <<"lpu">> ELSE <<>>)
                 \o (IF IsT(u.lpu) THEN <<"norm">> ELSE <<>>)
                 \o (IF IsT(u.norm) THEN <<"concatFuse">> ELSE <<>>)]

(***************************************************************************)
(* Attention and Block                                                     *)
(***************************************************************************)
AttentionInit(dim, num_heads, qk_ratio, sr_ratio) ==
    [dim |-> dim, num_heads |-> num_heads, qk_dim |-> dim \div qk_ratio,
     sr_ratio |-> sr_ratio]

\* the reduction convolution sliding with stride 1
SpatialReduce_Stride1(at, x, H, W, training) ==
    LET B == x.shape[1]
        C == x.shape[3]
        g == Reshape(Permute(x, <<1, 3, 2>>), <<B, C, H, W>>)
        c == BatchNorm2d(Conv2d(g, at.dim, at.dim, at.sr_ratio, 1, 0), training)
    IN  Permute(ReshapeInfer(c, <<B, C, -1>>), <<1, 3, 2>>)

\* x_ of the sr_ratio > 1 branch: tokens -> grid -> strided conv + BatchNorm -> tokens
SpatialReduce(at, x, H, W, training) ==
    LET B == x.shape[1]
        C == x.shape[3]
        g == Reshape(Permute(x, <<1, 3, 2>>), <<B, C, H, W>>)
        c == BatchNorm2d(Conv2d(g, at.dim, at.dim, at.sr_ratio, at.sr_ratio, 0), training)
    IN  Permute(ReshapeInfer(c, <<B, C, -1>>), <<1, 3, 2>>)

\* Attention.forward: [x, bn]; bn tells whether the BatchNorm of self.sr ran
AttentionForward(at, x, H, W, relative_pos, training) ==
    IF ~(IsT(x) /\ Rank(x) = 3) THEN [x |-> Err, bn |-> FALSE, kv |-> -1]
    ELSE
    LET B  == x.shape[1]
        N  == x.shape[2]
        C  == x.shape[3]
        h  == at.num_heads
        q  == Permute(Reshape(Linear(x, at.dim, at.qk_dim), <<B, N, h, at.qk_dim \div h>>),
                      <<1, 3, 2, 4>>)
        x_ == IF at.sr_ratio > 1 THEN SpatialReduce(at, x, H, W, training) ELSE x
        k  == IF at.sr_ratio > 1
              THEN Permute(ReshapeInfer(Linear(x_, at.dim, at.qk_dim),
                                        <<B, -1, h, at.qk_dim \div h>>), <<1, 3, 2, 4>>)
              ELSE Permute(Reshape(Linear(x, at.dim, at.qk_dim),
                                   <<B, N, h, at.qk_dim \div h>>), <<1, 3, 2, 4>>)
        v  == IF at.sr_ratio > 1
              THEN Permute(ReshapeInfer(Linear(x_, at.dim, at.dim),
                                        <<B, -1, h, C \div h>>), <<1, 3, 2, 4>>)
              ELSE Permute(Reshape(Linear(x, at.dim, at.dim),
                                   <<B, N, h, C \div h>>), <<1, 3, 2, 4>>)
        attn == Add(MatMul(q, Transpose(k, 3, 4)), relative_pos)
        o  == Reshape(Transpose(MatMul(attn, v), 2, 3), <<B, N, C>>)
    IN  [x |-> Linear(o, at.dim, at.dim),
         bn |-> at.sr_ratio > 1 /\ IsT(q) /\ IsT(x_),
         kv |-> IF IsT(k) THEN k.shape[3] ELSE -1]

BlockInit(dim, num_heads, qk_ratio, sr_ratio) ==
    [dim |-> dim,
     attn |-> AttentionInit(dim, num_heads, qk_ratio, sr_ratio),
     bn |-> [num_batches_tracked |-> 0, running_src |-> {}]]

\* Block.forward: [x, bn]
BlockForward(blk, x, H, W, relative_pos, training) ==
    IF ~(IsT(x) /\ Rank(x) = 3) THEN [x |-> Err, bn |-> FALSE]
    ELSE
    LET B == x.shape[1]
        C == x.shape[3]
        a == AttentionForward(blk.attn, LayerNorm(x, blk.dim), H, W, relative_pos, training)
        r == Add(x, a.x)
        cnn_feat == Reshape(Permute(r, <<1, 3, 2>>), <<B, C, H, W>>)
        y == Add(Conv2d(cnn_feat, blk.dim, blk.dim, 3, 1, 1), cnn_feat)
    IN  [x |-> Permute(Flatten2(y), <<1, 3, 2>>), bn |-> a.bn]

(***************************************************************************)
(* DecoderC: construction                                                  *)
(***************************************************************************)
EmbedDims == <<384, 128, 64, 16, 4>>
Depths == <<2, 3, 6, 3>>
DefaultNumHeads == <<1, 2, 4, 8>>
DefaultSrRatios == <<8, 4, 2, 1>>
QkRatio == 1
\* side of the grid the coarse tokens are reshaped to
Grid14 == 14

Stages == {"b", "c", "d"}

DecoderCInit(img_size, num_heads, sr_ratios, training) ==
    LET pe == [s \in Stages |->
                 CASE s = "b" -> PatchEmbedInit(img_size \div 4, 4, EmbedDims[3], EmbedDims[4], 7, 4, 2, FALSE)
                   [] s = "c" -> PatchEmbedInit(img_size \div 8, 2, EmbedDims[2], EmbedDims[3], 3, 2, 1, TRUE)
                   [] s = "d" -> PatchEmbedInit(img_size \div 16, 2, EmbedDims[1], EmbedDims[2], 3, 2, 1, TRUE)]
    IN  [img_size |-> img_size,
         training |-> training,
         weights |-> 0,
         patch_embed |-> pe,
         relative_pos |-> [s \in {"c", "d"} |->
             IF s = "c"
             THEN T(<<num_heads[3], pe["c"].num_patches,
                      (pe["c"].num_patches \div sr_ratios[3]) \div sr_ratios[3]>>, {})
             ELSE T(<<num_heads[4], pe["d"].num_patches,
                      (pe["d"].num_patches \div sr_ratios[4]) \div sr_ratios[4]>>, {})],
         blocks |-> [s \in {"c", "d"} |->
             IF s = "c"
             THEN [i \in 1..Depths[3] |-> BlockInit(EmbedDims[3], num_heads[3], QkRatio, sr_ratios[3])]
             ELSE [i \in 1..Depths[4] |-> BlockInit(EmbedDims[2], num_heads[4], QkRatio, sr_ratios[4])]]]

(***************************************************************************)
(* DecoderC: mask heads and the sigmoid step                               *)
(***************************************************************************)
\* sample logits a mask head may produce, and their sigmoid in 1/1000
LogitVals == {-2, 0, 3}
SigmoidQ(v) == CASE v = -2 -> 119 [] v = 0 -> 500 [] v = 3 -> 953 [] OTHER -> v

\* the reshape of a mask head with the first spatial size inferred
MaskReshape_Infer(t, B, side) == ReshapeInfer(t, <<B, 1, -1, side>>)

\* mask.transpose(1, 2).reshape(B, 1, side, side)
MaskReshape(t, B, side) == Reshape(t, <<B, 1, side, side>>)

\* pre_1_x(tokens) reshaped to a 2-D mask; after = the steps run before it
MaskHead(t, in_dim, B, side, head, v, after) ==
    LET m == MaskReshape(Transpose(Linear(t, in_dim, 1), 2, 3), B, side)
    IN  IF IsT(m)
        THEN [kind |-> "t", shape |-> m.shape, src |-> m.src,
              head |-> head, val |-> v, act |-> "logit", after |-> after]
        ELSE Err

\* nn.Sigmoid: a new tensor, the argument is left as it is
Sigmoid(m) == [m EXCEPT !.val = SigmoidQ(@), !.act = "sigmoid"]

\* the return statement with the probability maps in the order they are computed
ForwardReturn_ComputedOrder(f) ==
    <<f[1], f[2], f[3], f[4], Sigmoid(f[4]), Sigmoid(f[3]), Sigmoid(f[2]), Sigmoid(f[1])>>

\* DecoderC.forward after forward_features returned f = [1/16, 1/8, 1/4, 1/1]
ForwardReturn(f) ==
    LET m_1  == Sigmoid(f[4])
        m_4  == Sigmoid(f[3])
        m_8  == Sigmoid(f[2])
        m_16 == Sigmoid(f[1])
    IN  <<f[1], f[2], f[3], f[4], m_16, m_8, m_4, m_1>>

(***************************************************************************)
(* DecoderC.forward as a step machine                                      *)
(***************************************************************************)
ImgSizes == {208, 224, 225, 228, 232, 240, 448}
TokenCounts == {169, 196, 784}
InWidths == {384, 128}
Skip8Counts == {784, 196}
Skip4Counts == {3136, 784}
NumHeadsSet == {DefaultNumHeads}
SrRatiosSet == {DefaultSrRatios}

PC(step, i) == [step |-> step, i |-> i]

\* batch size bound by the first line of forward_features
BatchB == args.x.shape[1]

Raise(step) ==
    /\ pc' = PC("error", 0)
    /\ err' = step
    /\ UNCHANGED <<args, cur, HW, feat, out, calls>>

\* the blocks of stage d left out of the pipeline
AfterEmbed_SkipBlocksD(s) == CASE s = "d" -> PC("mask_1_8", 0)
                               [] s = "c" -> PC("blocks_c", 1)
                               [] s = "b" -> PC("mask_1_1", 0)

\* the step after the PatchEmbed of stage s, and after its last block
AfterEmbed(s) == CASE s = "d" -> PC("blocks_d", 1)
                   [] s = "c" -> PC("blocks_c", 1)
                   [] s = "b" -> PC("mask_1_1", 0)
AfterBlocks(s) == IF s = "d" THEN PC("mask_1_8", 0) ELSE PC("mask_1_4", 0)

\* a caller invokes forward(x, x_1_8, x_1_4)
Call(B, N, C, N8, N4) ==
    /\ pc.step \in {"idle", "done", "error"}
    /\ calls < MaxCalls
    /\ args' = [x |-> T(<<B, N, C>>, {"x"}),
                x_1_8 |-> T(<<B, N8, EmbedDims[2]>>, {"x_1_8"}),
                x_1_4 |-> T(<<B, N4, EmbedDims[3]>>, {"x_1_4"})]
    /\ cur' = args'.x
    /\ pc' = PC("mask_1_16", 0)
    /\ HW' = <<0, 0>>
    /\ feat' = <<>>
    /\ out' = <<>>
    /\ log' = <<>>
    /\ err' = "none"
    /\ calls' = calls + 1
    /\ UNCHANGED <<model, unit, res>>

\* lines 343-345: norm, mlp, pre_1_16, reshape to (B, 1, img/16, img/16)
Mask16(v) ==
    /\ pc.step = "mask_1_16"
    /\ log' = Append(log, pc)
    /\ LET f == Linear(Linear(LayerNorm(cur, EmbedDims[1]), EmbedDims[1], EmbedDims[1]),
                       EmbedDims[1], EmbedDims[2])
           m == MaskHead(f, EmbedDims[2], BatchB, model.img_size \div 16, "pre_1_16", v, log)
       IN  IF IsT(m)
           THEN /\ feat' = Append(feat, m)
                /\ pc' = PC("patch_embed_d", 0)
                /\ UNCHANGED <<args, cur, HW, out, calls, err>>
           ELSE Raise("mask_1_16")
    /\ UNCHANGED <<model, unit, res>>

\* the grid handed to the PatchEmbed of stage s (lines 347, 356, 364)
StageGrid(s) ==
    IF s = "d"
    THEN Reshape(Transpose(cur, 2, 3), <<BatchB, cur.shape[3], Grid14, Grid14>>)
    ELSE Permute(ReshapeInfer(cur, <<BatchB, HW[1], HW[2], -1>>), <<1, 4, 2, 3>>)

\* the two skip features handed over in swapped order
StageSkip_Swapped(s) == CASE s = "d" -> args.x_1_4 [] s = "c" -> args.x_1_8 [] s = "b" -> None

\* the skip feature handed to the PatchEmbed of stage s (lines 348, 357, 365)
StageSkip(s) == CASE s = "d" -> args.x_1_8 [] s = "c" -> args.x_1_4 [] s = "b" -> None

\* x, (H, W) = self.patch_embed_s(x, skip)
PatchEmbedStep(s, step) ==
    /\ pc.step = step
    /\ LET g == StageGrid(s)
           r == PatchEmbedForward(model.patch_embed[s], g, StageSkip(s))
       IN  IF ~IsT(g)
           THEN /\ Raise("reshape")
                /\ log' = log
           ELSE /\ log' = Append(log, pc)
                /\ IF IsT(r.x)
                   THEN /\ cur' = r.x
                        /\ HW' = r.HW
                        /\ pc' = AfterEmbed(s)
                        /\ UNCHANGED <<args, feat, out, calls, err>>
                   ELSE Raise(step)
    /\ UNCHANGED <<model, unit, res>>

PatchEmbedD == PatchEmbedStep("d", "patch_embed_d")
PatchEmbedC == PatchEmbedStep("c", "patch_embed_c")
PatchEmbedB == PatchEmbedStep("b", "patch_embed_b")

\* x = blk(x, H, W, self.relative_pos_s) for the pc.i-th block of stage s
BlockStep(s, step) ==
    /\ pc.step = step
    /\ log' = Append(log, pc)
    /\ LET r == BlockForward(model.blocks[s][pc.i], cur, HW[1], HW[2],
                             model.relative_pos[s], model.training)
       IN  /\ model' = IF r.bn
                       THEN [model EXCEPT !.blocks[s][pc.i].bn =
                                              BNUpdate(@, cur.src, model.training)]
                       ELSE model
           /\ IF IsT(r.x)
              THEN /\ cur' = r.x
                   /\ pc' = IF pc.i < Len(model.blocks[s]) THEN PC(step, pc.i + 1)
                            ELSE AfterBlocks(s)
                   /\ UNCHANGED <<args, HW, feat, out, calls, err>>
              ELSE Raise(step)
    /\ UNCHANGED <<unit, res>>

BlockD == BlockStep("d", "blocks_d")
BlockC == BlockStep("c", "blocks_c")

\* mask_1_k = self.pre_1_k(x) reshaped to (B, 1, img/k, img/k)
MaskStep(step, in_dim, k, head, next, v) ==
    /\ pc.step = step
    /\ log' = Append(log, pc)
    /\ LET m == MaskHead(cur, in_dim, BatchB, model.img_size \div k, head, v, log)
       IN  IF IsT(m)
           THEN /\ feat' = Append(feat, m)
                /\ pc' = PC(next, 0)
                /\ UNCHANGED <<args, cur, HW, out, calls, err>>
           ELSE Raise(step)
    /\ UNCHANGED <<model, unit, res>>

Mask8(v) == MaskStep("mask_1_8", EmbedDims[2], 8, "pre_1_8", "patch_embed_c", v)
Mask4(v) == MaskStep("mask_1_4", EmbedDims[3], 4, "pre_1_4", "patch_embed_b", v)
Mask1(v) == MaskStep("mask_1_1", EmbedDims[4], 1, "pre_1_1", "sigmoid", v)

\* lines 380-385: the four sigmoids and the return
Return ==
    /\ pc.step = "sigmoid"
    /\ out' = ForwardReturn(feat)
    /\ pc' = PC("done", 0)
    /\ UNCHANGED <<model, args, cur, HW, feat, log, calls, err, unit, res>>

Init ==
    /\ \E img \in ImgSizes, nh \in NumHeadsSet, sr \in SrRatiosSet, tr \in BOOLEAN :
          model = DecoderCInit(img, nh, sr, tr)
    /\ args = [x |-> None, x_1_8 |-> None, x_1_4 |-> None]
    /\ pc = PC("idle", 0)
    /\ cur = None
    /\ HW = <<0, 0>>
    /\ feat = <<>>
    /\ out = <<>>
    /\ log = <<>>
    /\ calls = 0
    /\ err = "none"
    /\ unit = [name |-> "DecoderC"]
    /\ res = <<>>

Next ==
    \/ \E B \in 1..MaxBatch, N \in TokenCounts, C \in InWidths,
          N8 \in Skip8Counts, N4 \in Skip4Counts : Call(B, N, C, N8, N4)
    \/ \E v \in LogitVals : Mask16(v)
    \/ PatchEmbedD
    \/ BlockD
    \/ \E v \in LogitVals : Mask8(v)
    \/ PatchEmbedC
    \/ BlockC
    \/ \E v \in LogitVals : Mask4(v)
    \/ PatchEmbedB
    \/ \E v \in LogitVals : Mask1(v)
    \/ Return

Spec == Init /\ [][Next]_vars

(***************************************************************************)
(* Component harnesses: a module is constructed, then forward is called    *)
(***************************************************************************)
\* the decoder variables while a single component is exercised
DecoderIdle ==
    /\ model = [name |-> "none"]
    /\ args = [x |-> None, x_1_8 |-> None, x_1_4 |-> None]
    /\ pc = PC("idle", 0)
    /\ cur = None
    /\ HW = <<0, 0>>
    /\ feat = <<>>
    /\ out = <<>>
    /\ log = <<>>
    /\ calls = 0
    /\ err = "none"

\* ---- CrossAttention(dim1, dim2, dim, num_heads).forward(fea, depth_fea) ----
CAWidths == {4, 8}
CAHeads == {1, 2, 3}

InitCrossAttention ==
    /\ DecoderIdle
    /\ \E dim1 \in CAWidths, dim2 \in CAWidths, dim \in CAWidths, h \in CAHeads,
          B1 \in 1..MaxBatch, B2 \in 1..MaxBatch, N1 \in 1..MaxTok, N2 \in 1..MaxTok :
          unit = [ca |-> CrossAttentionInit(dim1, dim2, dim, h),
                  fea |-> T(<<B1, N1, dim1>>, {"fea"}),
                  depth_fea |-> T(<<B2, N2, dim2>>, {"depth_fea"})]
    /\ res = <<>>

CrossAttentionCall ==
    /\ res = <<>>
    /\ res' = <<CrossAttentionForward(unit.ca, unit.fea, unit.depth_fea)>>
    /\ UNCHANGED <<unit, model, args, pc, cur, HW, feat, out, log, calls, err>>

NextCrossAttention == CrossAttentionCall

SpecCrossAttention == InitCrossAttention /\ [][NextCrossAttention]_vars

\* ---- PatchEmbed(...).forward(x, enc_fea), called twice on the same x ----
PatchSizes == {1, 2, 4}
\* <<kernel_size, stride, padding>>
FoldGeoms == {<<3, 2, 1>>, <<7, 4, 2>>, <<3, 1, 1>>, <<2, 2, 0>>}
\* <<in_chans, embed_dim>> of the three DecoderC stages
ChanPairs == {<<384, 128>>, <<128, 64>>, <<64, 16>>}

\* skip-feature arguments tried for a PatchEmbed whose fold yields n tokens
SkipArgs(B, n, embed_dim, name) ==
    {None, T(<<B, n, embed_dim>>, {name}), T(<<B, 1, embed_dim>>, {name})}

InitPatchEmbed ==
    /\ DecoderIdle
    /\ \E ms \in 1..MaxSide, ps \in PatchSizes, g \in FoldGeoms, ch \in ChanPairs,
          fuse \in BOOLEAN, B \in 1..MaxBatch, H \in 1..MaxSide, W \in 1..MaxSide :
          \E e1 \in SkipArgs(B, (ms * g[2]) * (ms * g[2]), ch[2], "enc_1"),
             e2 \in SkipArgs(B, (ms * g[2]) * (ms * g[2]), ch[2], "enc_2") :
             unit = [pe |-> PatchEmbedInit(ms, ps, ch[1], ch[2], g[1], g[2], g[3], fuse),
                     x |-> T(<<B, ch[1], H, W>>, {"x"}),
                     enc_fea |-> <<e1, e2>>]
    /\ res = <<>>

PatchEmbedCall ==
    /\ Len(res) < 2
    /\ res' = Append(res, PatchEmbedForward(unit.pe, unit.x, unit.enc_fea[Len(res) + 1]))
    /\ UNCHANGED <<unit, model, args, pc, cur, HW, feat, out, log, calls, err>>

NextPatchEmbed == PatchEmbedCall

SpecPatchEmbed == InitPatchEmbed /\ [][NextPatchEmbed]_vars

\* ---- Attention(dim, num_heads, sr_ratio).forward(x, H, W, relative_pos) ----
AttnWidths == {4, 8}
AttnHeads == {1, 2, 4}
MaxSr == 3

\* key/value token count the bias is built for
BiasKeys(H, W, sr) == IF sr > 1 THEN (H \div sr) * (W \div sr) ELSE H * W

InitAttention ==
    /\ DecoderIdle
    /\ \E dim \in AttnWidths, h \in AttnHeads, sr \in 1..MaxSr, B \in 1..MaxBatch,
          H \in 1..MaxSide, W \in 1..MaxSide, tr \in BOOLEAN :
          unit = [at |-> AttentionInit(dim, h, QkRatio, sr),
                  x |-> T(<<B, H * W, dim>>, {"x"}),
                  H |-> H, W |-> W,
                  relative_pos |-> T(<<h, H * W, BiasKeys(H, W, sr)>>, {}),
                  training |-> tr]
    /\ res = <<>>

AttentionCall ==
    /\ res = <<>>
    /\ res' = <<AttentionForward(unit.at, unit.x, unit.H, unit.W,
                                 unit.relative_pos, unit.training)>>
    /\ UNCHANGED <<unit, model, args, pc, cur, HW, feat, out, log, calls, err>>

NextAttention == AttentionCall

SpecAttention == InitAttention /\ [][NextAttention]_vars

(***************************************************************************)
(* Properties of the components                                            *)
(***************************************************************************)
\* every call the PatchEmbed harness has made so far
PECalls == 1..Len(res)

\* C3: whenever PatchEmbed.forward succeeds, the number of tokens it returns
\* is (H * patch_size) * (W * patch_size) and equals the product of the
\* spatial dims it reports, for every configuration.
C3_TokensMatchReportedDims ==
    \A i \in PECalls :
        IsT(res[i].x) =>
            /\ res[i].x.shape[2] = (unit.x.shape[3] * unit.pe.patch_size[1])
                                   * (unit.x.shape[4] * unit.pe.patch_size[2])
            /\ res[i].HW[1] * res[i].HW[2] = res[i].x.shape[2]

\* C4: a PatchEmbed.forward whose input height or width differs from img_size
\* raises before project, fold, lpu, norm or fusion is entered and returns
\* nothing; with both equal to img_size the check passes and project is entered.
C4_SizeCheckFirst ==
    \A i \in PECalls :
        IF unit.x.shape[3] # unit.pe.img_size[1] \/ unit.x.shape[4] # unit.pe.img_size[2]
        THEN res[i].x = Err /\ res[i].ran = <<>> /\ res[i].HW = <<0, 0>>
        ELSE res[i].ran # <<>> /\ Head(res[i].ran) = "project"

\* a mismatched input whose token count the fold would have accepted was rejected
C4_Witness ==
    /\ Len(res) >= 1
    /\ unit.x.shape[3] # unit.pe.img_size[1]
    /\ unit.x.shape[3] * unit.x.shape[4] = unit.pe.img_size[1] * unit.pe.img_size[2]
    /\ res[1].x = Err

\* C5: with fuse disabled, two forward calls on the same x with different
\* skip-feature arguments (None included) return the same tokens and dims.
C5_NoFuseIgnoresSkip ==
    (~unit.pe.fuse /\ Len(res) = 2) => res[1] = res[2]

\* a fuse-less PatchEmbed called once without and once with a skip feature
C5_Witness ==
    /\ ~unit.pe.fuse
    /\ Len(res) = 2
    /\ unit.enc_fea[1] = None
    /\ IsT(unit.enc_fea[2])
    /\ IsT(res[1].x)

\* C6: with dim divisible by num_heads, CrossAttention.forward returns
\* (B, N1, dim1) whenever the batch sizes agree, whatever N1 and N2 are, and
\* raises whenever they differ.
C6_CrossAttentionShape ==
    (res # <<>> /\ unit.ca.dim % unit.ca.num_heads = 0) =>
        IF unit.fea.shape[1] = unit.depth_fea.shape[1]
        THEN /\ IsT(res[1])
             /\ res[1].shape = <<unit.fea.shape[1], unit.fea.shape[2], unit.ca.dim1>>
        ELSE res[1] = Err

\* a cross-scale call (N1 # N2, dim1 # dim2) that returned
C6_Witness ==
    /\ res # <<>>
    /\ unit.ca.dim % unit.ca.num_heads = 0
    /\ unit.fea.shape[1] = unit.depth_fea.shape[1]
    /\ unit.fea.shape[2] # unit.depth_fea.shape[2]
    /\ unit.ca.dim1 # unit.ca.dim2
    /\ IsT(res[1])

\* the Attention call returned (B, N, C) and produced BiasKeys key/value tokens
AttnReturnsInputShape ==
    /\ IsT(res[1].x)
    /\ res[1].x.shape = unit.x.shape
    /\ res[1].kv = BiasKeys(unit.H, unit.W, unit.at.sr_ratio)

\* C7 as stated: Attention.forward returns (B, N, C) for every sr_ratio >= 1,
\* with floor(H/sr) * floor(W/sr) key/value tokens (N when sr_ratio = 1).
C7_AnySrRatio ==
    res # <<>> => AttnReturnsInputShape

\* the reduction fits the grid, and BatchNorm gets more than one value per channel
AttnReducible ==
    \/ unit.at.sr_ratio = 1
    \/ /\ unit.at.sr_ratio <= unit.H
       /\ unit.at.sr_ratio <= unit.W
       /\ ~(unit.training
            /\ unit.x.shape[1] * BiasKeys(unit.H, unit.W, unit.at.sr_ratio) = 1)

\* C7 amended: the same result for every sr_ratio with 1 <= sr_ratio <= min(H, W),
\* provided that in training mode B * K > 1 when sr_ratio > 1; otherwise
\* the call raises.
C7_ReducibleSrRatio ==
    res # <<>> => IF AttnReducible THEN AttnReturnsInputShape ELSE res[1].x = Err

\* a reduction whose floor drops a row and a column
C7_Witness ==
    /\ res # <<>>
    /\ unit.at.sr_ratio > 1
    /\ unit.H % unit.at.sr_ratio # 0
    /\ unit.W % unit.at.sr_ratio # 0
    /\ AttnReducible
    /\ IsT(res[1].x)

(***************************************************************************)
(* Properties of DecoderC.forward                                          *)
(***************************************************************************)
Finished == pc.step \in {"done", "error"}

\* the coarse tensor (1, 196, 384) with skip features of the token counts
\* and widths the stages produce from it
CoarseInput ==
    /\ args.x.shape = <<1, Grid14 * Grid14, EmbedDims[1]>>
    /\ args.x_1_8.shape = <<1, (2 * Grid14) * (2 * Grid14), EmbedDims[2]>>
    /\ args.x_1_4.shape = <<1, (4 * Grid14) * (4 * Grid14), EmbedDims[3]>>

MaskScales == <<16, 8, 4, 1>>
MaskHeads == <<"pre_1_16", "pre_1_8", "pre_1_4", "pre_1_1">>

\* (1, 1, H/k, H/k) for the k-th scale
MaskShape(B, H, i) == <<B, 1, H \div MaskScales[i], H \div MaskScales[i]>>

ReturnsEightMasks ==
    /\ pc.step = "done"
    /\ Len(out) = 8
    /\ \A i \in 1..4 :
          /\ out[i].shape = MaskShape(1, model.img_size, i)
          /\ out[4 + i].shape = MaskShape(1, model.img_size, i)

\* C1 as stated: on the (1, 196, 384) input forward returns the 8 tensors of
\* shapes (1,1,H/16,H/16) .. (1,1,H,H), twice, for every configured H.
C1_EveryImgSize ==
    (Finished /\ CoarseInput) => ReturnsEightMasks

\* C1 amended: that holds for img_size = 224; for every other img_size the
\* same call ends in an error.
C1_ImgSize224 ==
    (Finished /\ CoarseInput) =>
        IF model.img_size = 16 * Grid14
        THEN ReturnsEightMasks
        ELSE pc.step = "error" /\ out = <<>>

C1_Witness ==
    /\ pc.step = "done"
    /\ CoarseInput
    /\ model.img_size = 16 * Grid14
    /\ Len(out) = 8

\* C2: a successful forward returns the logits of scales 1/16, 1/8, 1/4, 1/1
\* at positions 0..3, exactly as forward_features produced them, and at
\* position 4+i the sigmoid of the tensor at position i.
C2_OutputOrder ==
    pc.step = "done" =>
        /\ Len(out) = 8
        /\ \A i \in 1..4 :
              /\ out[i] = feat[i]
              /\ out[i].head = MaskHeads[i]
              /\ out[i].act = "logit"
              /\ out[i].shape[3] = model.img_size \div MaskScales[i]
              /\ out[4 + i].head = MaskHeads[i]
              /\ out[4 + i].act = "sigmoid"
              /\ out[4 + i].val = SigmoidQ(out[i].val)
              /\ out[4 + i].shape = out[i].shape

\* a return whose four logits are not all alike
C2_Witness ==
    /\ pc.step = "done"
    /\ Len(out) = 8
    /\ out[1].val # out[4].val
    /\ out[2].val # out[3].val

\* the size a step is configured with disagrees with the grid it is given
StepDisagrees ==
    LET side(k) == model.img_size \div k
    IN  CASE pc.step = "mask_1_16" -> cur.shape[2] # side(16) * side(16)
          [] pc.step = "patch_embed_d" ->
                 \/ cur.shape[2] # Grid14 * Grid14
                 \/ model.patch_embed["d"].img_size # <<Grid14, Grid14>>
          [] pc.step = "mask_1_8" -> HW # <<side(8), side(8)>>
          [] pc.step = "patch_embed_c" -> HW # model.patch_embed["c"].img_size
          [] pc.step = "mask_1_4" -> HW # <<side(4), side(4)>>
          [] pc.step = "patch_embed_b" -> HW # model.patch_embed["b"].img_size
          [] pc.step = "mask_1_1" -> HW # <<side(1), side(1)>>
          [] OTHER -> FALSE

\* scale of the token grid held at a step
GridScale ==
    CASE pc.step \in {"mask_1_16", "patch_embed_d"} -> 16
      [] pc.step \in {"blocks_d", "mask_1_8", "patch_embed_c"} -> 8
      [] pc.step \in {"blocks_c", "mask_1_4", "patch_embed_b"} -> 4
      [] pc.step = "mask_1_1" -> 1
      [] OTHER -> 0

\* the token grid held disagrees with the configured size of its scale
GridDisagrees ==
    /\ GridScale # 0
    /\ cur.shape[2] # (model.img_size \div GridScale) * (model.img_size \div GridScale)

\* all 8 tensors or none; after a raise nothing further has run
AllOrNothing ==
    /\ pc.step = "done" => Len(out) = 8
    /\ pc.step # "done" => out = <<>>
    /\ (pc.step = "error" /\ err # "reshape") => log[Len(log)].step = err

\* C8 as stated: forward returns all 8 tensors or none, and as soon as the
\* token grid present disagrees with the configured size the very next step
\* raises, before any Block or PatchEmbed runs on it.
C8_RaisedAtOnce ==
    []AllOrNothing /\ [][GridDisagrees => pc'.step = "error"]_vars

\* C8 amended: forward returns all 8 tensors or none, and a step whose own
\* configured size (mask target side, PatchEmbed img_size, the 14x14 grid)
\* disagrees with the grid raises without any later step running; the
\* Blocks of the stage that produced the grid have run by then.
C8_RaisedByOwningStep ==
    []AllOrNothing /\ [][StepDisagrees => (pc'.step = "error" /\ out' = <<>>)]_vars

\* the 1/8 mask head raised after PatchEmbed d and all blocks of stage d ran
C8_Witness ==
    /\ pc.step = "error"
    /\ err = "mask_1_8"
    /\ Len(log) = 3 + Depths[4]
    /\ log[Len(log) - 1].step = "blocks_d"

\* everything of the model that is not a BatchNorm buffer
Frozen(m) ==
    [img_size |-> m.img_size, training |-> m.training, weights |-> m.weights,
     patch_embed |-> m.patch_embed, relative_pos |-> m.relative_pos,
     blocks |-> [s \in DOMAIN m.blocks |->
                   [i \in DOMAIN m.blocks[s] |->
                      [dim |-> m.blocks[s][i].dim, attn |-> m.blocks[s][i].attn]]]]

\* C9 as stated: no step of forward changes any persistent model state, in
\* training mode as well as in inference mode.
C9_NothingChanges ==
    [][model' = model]_vars

\* C9 amended: in inference mode no step changes the model; in training mode
\* the only change is to the BatchNorm buffers of the spatial-reduction
\* sub-layer of the stage-c block that is executing.
C9_OnlyBatchNormInTraining ==
    [][/\ ~model.training => model' = model
       /\ Frozen(model') = Frozen(model)
       /\ model'.blocks["d"] = model.blocks["d"]
       /\ model' # model =>
             /\ pc.step = "blocks_c"
             /\ \A i \in DOMAIN model.blocks["c"] :
                   i # pc.i => model'.blocks["c"][i] = model.blocks["c"][i]]_vars

\* two forward calls completed on one instance in inference mode
C9_Witness ==
    /\ ~model.training
    /\ calls >= 2
    /\ pc.step = "done"
    /\ \A i \in DOMAIN model.blocks["c"] : model.blocks["c"][i].bn.num_batches_tracked = 0

BlockSeq(step, n) == [i \in 1..n |-> PC(step, i)]

\* the pipeline of a successful call
ExpectedLog ==
    <<PC("mask_1_16", 0), PC("patch_embed_d", 0)>>
    \o BlockSeq("blocks_d", Depths[4])
    \o <<PC("mask_1_8", 0), PC("patch_embed_c", 0)>>
    \o BlockSeq("blocks_c", Depths[3])
    \o <<PC("mask_1_4", 0), PC("patch_embed_b", 0), PC("mask_1_1", 0)>>

\* position of the i-th mask head in the pipeline
MaskPos(i) ==
    CASE i = 1 -> 1
      [] i = 2 -> 3 + Depths[4]
      [] i = 3 -> 5 + Depths[4] + Depths[3]
      [] i = 4 -> 7 + Depths[4] + Depths[3]

\* C10: a successful forward runs 1/16 mask, PatchEmbed d, the depths[3]
\* blocks of d in order, 1/8 mask, PatchEmbed c, the depths[2] blocks of c
\* in order, 1/4 mask, PatchEmbed b, full mask; each mask head reads the
\* tokens present after exactly the steps before it.
C10_StepOrder ==
    pc.step \in {"sigmoid", "done"} =>
        /\ log = ExpectedLog
        /\ \A i \in 1..4 :
              /\ feat[i].head = MaskHeads[i]
              /\ feat[i].after = SubSeq(ExpectedLog, 1, MaskPos(i) - 1)
        /\ feat[1].src = {"x"}
        /\ feat[2].src = {"x", "x_1_8"}
        /\ feat[3].src = {"x", "x_1_8", "x_1_4"}
        /\ feat[4].src = {"x", "x_1_8", "x_1_4"}

C10_Witness ==
    /\ pc.step = "done"
    /\ Len(log) = 7 + Depths[4] + Depths[3]
    /\ Len(feat) = 4

(***************************************************************************)
(* DecoderC construction with arbitrary head counts and reduction ratios   *)
(***************************************************************************)
ConstructImgSizes == {16, 32, 48, 64, 96, 224}
HeadChoices == {1, 2, 4, 8}

InitConstruct ==
    /\ \E img \in ConstructImgSizes, hc \in HeadChoices, hd \in HeadChoices,
          sc \in 1..MaxSr, sd \in 1..MaxSr, tr \in BOOLEAN :
          model = DecoderCInit(img, <<DefaultNumHeads[1], DefaultNumHeads[2], hc, hd>>,
                               <<DefaultSrRatios[1], DefaultSrRatios[2], sc, sd>>, tr)
    /\ args = [x |-> None, x_1_8 |-> None, x_1_4 |-> None]
    /\ pc = PC("idle", 0)
    /\ cur = None
    /\ HW = <<0, 0>>
    /\ feat = <<>>
    /\ out = <<>>
    /\ log = <<>>
    /\ calls = 0
    /\ err = "none"
    /\ unit = [name |-> "DecoderC.__init__"]
    /\ res = <<>>

\* side of the token grid the PatchEmbed of stage s reports
StageSide(m, s) == m.patch_embed[s].img_size[1] * m.patch_embed[s].patch_size[1]

\* the first block of stage s attends over the tokens its PatchEmbed yields
\* from a grid of the configured size
ProbeStage(s) ==
    /\ \A i \in 1..Len(res) : res[i].stage # s
    /\ LET pe == model.patch_embed[s]
           g  == T(<<1, pe.in_chans, pe.img_size[1], pe.img_size[2]>>, {"x"})
           sk == T(<<1, pe.output_size * pe.output_size, pe.embed_dim>>, {"skip"})
           r  == PatchEmbedForward(pe, g, sk)
           blk == model.blocks[s][1]
           a  == AttentionForward(blk.attn, LayerNorm(r.x, blk.dim), r.HW[1], r.HW[2],
                                  model.relative_pos[s], model.training)
       IN  res' = Append(res, [stage |-> s,
                               tokens |-> IF IsT(r.x) THEN r.x.shape[2] ELSE -1,
                               HW |-> r.HW,
                               kv |-> a.kv,
                               ok |-> IsT(a.x)])
    /\ UNCHANGED <<unit, model, args, pc, cur, HW, feat, out, log, calls, err>>

ProbeC == ProbeStage("c")
ProbeD == ProbeStage("d")

NextConstruct == ProbeC \/ ProbeD

SpecConstruct == InitConstruct /\ [][NextConstruct]_vars

\* C11: for every construction the bias of stage c and of stage d has shape
\* (num_heads, N, K), N the token count of the stage's PatchEmbed and
\* K = floor(H/sr) * floor(W/sr) the key/value count its Attention produces,
\* so the bias is added to logits of the same trailing shape.
C11_BiasFitsAttention ==
    \A i \in 1..Len(res) :
        res[i].kv # -1 =>
           /\ model.relative_pos[res[i].stage].shape
                 = <<model.blocks[res[i].stage][1].attn.num_heads, res[i].tokens, res[i].kv>>
           /\ res[i].tokens = StageSide(model, res[i].stage) * StageSide(model, res[i].stage)
           /\ res[i].ok

(***************************************************************************)
(* Consecutive forward calls on one instance, observed by the caller       *)
(***************************************************************************)
\* a mask without its sample value and step history: what it is computed
\* from, by which head, in which shape
View(m) == [shape |-> m.shape, src |-> m.src, head |-> m.head, act |-> m.act]

Views(ms) == [k \in 1..Len(ms) |-> View(ms[k])]

\* the caller keeps what a finished call was given and what it computed, for
\* the first two calls
Record ==
    /\ pc.step \in {"done", "error"}
    /\ Len(res) = calls - 1
    /\ Len(res) < 2
    /\ res' = Append(res, [x |-> args.x, x_1_8 |-> args.x_1_8, x_1_4 |-> args.x_1_4,
                           feat |-> Views(feat), out |-> Views(out)])
    /\ UNCHANGED <<unit, model, args, pc, cur, HW, feat, out, log, calls, err>>

\* a finished call is recorded before the next one starts, and calls go on
\* until two of them have been compared
NextRuns ==
    \/ /\ Len(res) < 2
       /\ pc.step \in {"done", "error"} => Len(res) = calls
       /\ Next
    \/ Record

\* one configuration whose calls can return and one whose calls stop at the
\* 1/8 mask head
RunImgSizes == {224, 232}

InitRuns ==
    /\ Init
    /\ model.img_size \in RunImgSizes

SpecRuns == InitRuns /\ [][NextRuns]_vars

\* the first k masks were computed in both runs or in neither, and agree
SameMasks(r1, r2, k) ==
    /\ (Len(r1.feat) >= k) = (Len(r2.feat) >= k)
    /\ Len(r1.feat) >= k => r1.feat[k] = r2.feat[k]

\* the returned tensors at positions k and 4 + k agree when both runs returned
SameOutputs(r1, r2, k) ==
    (r1.out # <<>> /\ r2.out # <<>>) =>
        /\ r1.out[k] = r2.out[k]
        /\ r1.out[4 + k] = r2.out[4 + k]

\* C12: for two runs on the same model and the same x, the 1/16 mask and its
\* probability map are the same whatever x_1_8 and x_1_4 are, the 1/8 mask
\* and its probability map are the same whatever x_1_4 is, and only the 1/4
\* and full-resolution outputs are computed from x_1_4.
C12_EarlyMasksIgnoreLaterSkips ==
    /\ \A i \in 1..Len(res), j \in 1..Len(res) :
          res[i].x = res[j].x =>
             /\ SameMasks(res[i], res[j], 1)
             /\ SameOutputs(res[i], res[j], 1)
             /\ res[i].x_1_8 = res[j].x_1_8 =>
                   /\ SameMasks(res[i], res[j], 2)
                   /\ SameOutputs(res[i], res[j], 2)
    /\ \A i \in 1..Len(res) :
          /\ \A k \in 1..Len(res[i].feat) :
                /\ "x_1_8" \in res[i].feat[k].src => k >= 2
                /\ "x_1_4" \in res[i].feat[k].src => k >= 3
          /\ \A k \in 1..Len(res[i].out) :
                /\ "x_1_8" \in res[i].out[k].src => k \in {2, 3, 4, 6, 7, 8}
                /\ "x_1_4" \in res[i].out[k].src => k \in {3, 4, 7, 8}

\* two runs on the same x with different x_1_4: one returned, the other got
\* as far as the 1/8 mask
C12_Witness ==
    /\ Len(res) = 2
    /\ res[1].x = res[2].x
    /\ res[1].x_1_8 = res[2].x_1_8
    /\ res[1].x_1_4 # res[2].x_1_4
    /\ Len(res[1].out) = 8
    /\ Len(res[2].feat) = 2

(***************************************************************************)
(* Element layout: which token sits at which position of a tensor          *)
(***************************************************************************)
MaxChan == 2
MaxOps == 3

\* offset of a 0-based index in a contiguous (row-major) tensor of that shape
RECURSIVE Ravel(_, _)
Ravel(idx, shape) ==
    IF Len(shape) = 0 THEN 0
    ELSE Ravel(SubSeq(idx, 1, Len(idx) - 1), SubSeq(shape, 1, Len(shape) - 1)) * shape[Len(shape)]
         + idx[Len(idx)]

\* the 0-based index at an offset
RECURSIVE Unravel(_, _)
Unravel(k, shape) ==
    IF Len(shape) = 0 THEN <<>>
    ELSE Append(Unravel(k \div shape[Len(shape)], SubSeq(shape, 1, Len(shape) - 1)),
                k % shape[Len(shape)])

\* a tensor with its elements, listed in row-major order
TD(shape, data) == [kind |-> "t", shape |-> shape, src |-> {}, data |-> data]

At(t, idx) == t.data[Ravel(idx, t.shape) + 1]

\* Tensor.reshape of a contiguous tensor keeps the element order
ReshapeData(t, shape) ==
    IF IsT(t) /\ Numel(t.shape) = Numel(shape) THEN [t EXCEPT !.shape = shape] ELSE Err

ReshapeInferData(t, shape) ==
    IF IsT(ReshapeInfer(t, shape)) THEN [t EXCEPT !.shape = ReshapeInfer(t, shape).shape] ELSE Err

\* Tensor.permute(p): axis k of the result is axis p[k] of the argument
PermuteData(t, p) ==
    IF IsT(t) /\ Len(p) = Rank(t)
    THEN LET ns == [k \in 1..Len(p) |-> t.shape[p[k]]]
         IN  TD(ns, [k \in 1..Numel(ns) |->
                       LET j == Unravel(k - 1, ns)
                           o == [d \in 1..Len(p) |-> j[CHOOSE m \in 1..Len(p) : p[m] = d]]
                       IN  At(t, o)])
    ELSE Err

TransposeData(t, i, j) ==
    IF IsT(t) /\ i <= Rank(t) /\ j <= Rank(t)
    THEN PermuteData(t, [k \in 1..Rank(t) |-> IF k = i THEN j ELSE IF k = j THEN i ELSE k])
    ELSE Err

Flatten2Data(t) ==
    IF IsT(t) /\ Rank(t) = 4
    THEN ReshapeData(t, <<t.shape[1], t.shape[2], t.shape[3] * t.shape[4]>>) ELSE Err

\* tokens (B, N, C) in which every element of token n of sample b is marked <<b, n>>
Tokens(B, N, C) == TD(<<B, N, C>>, [k \in 1..(B * N * C) |-> SubSeq(Unravel(k - 1, <<B, N, C>>), 1, 2)])

\* Block.forward line 168: cnn_feat = x.permute(0, 2, 1).reshape(B, C, H, W)
BlockGrid(x, H, W) ==
    ReshapeData(PermuteData(x, <<1, 3, 2>>), <<x.shape[1], x.shape[3], H, W>>)

\* Block.forward line 170: x.flatten(2).permute(0, 2, 1)
BlockTokens(g) == PermuteData(Flatten2Data(g), <<1, 3, 2>>)

\* PatchEmbed.forward line 219: x.flatten(2).transpose(1, 2) of the folded grid
PatchEmbedTokens(g) == TransposeData(Flatten2Data(g), 2, 3)

\* forward_features line 347: x.transpose(1, 2).reshape(B, C, 14, 14)
FirstGrid(x) ==
    ReshapeData(TransposeData(x, 2, 3), <<x.shape[1], x.shape[3], Grid14, Grid14>>)

\* the inter-stage reshape read as if the buffer were channel-first
InterStageGrid_ChannelFirst(x, H, W) ==
    ReshapeInferData(x, <<x.shape[1], 0 - 1, H, W>>)

\* forward_features lines 356, 364: x.reshape(B, H, W, -1).permute(0, 3, 1, 2)
InterStageGrid(x, H, W) ==
    PermuteData(ReshapeInferData(x, <<x.shape[1], H, W, 0 - 1>>), <<1, 4, 2, 3>>)

\* pre_1_k = nn.Linear(C, 1): one value per token
PreHead(x) ==
    TD(<<x.shape[1], x.shape[2], 1>>,
       [k \in 1..(x.shape[1] * x.shape[2]) |->
           At(x, Append(Unravel(k - 1, <<x.shape[1], x.shape[2]>>), 0))])

\* lines 345, 354, 362, 370: mask.transpose(1, 2).reshape(B, 1, s, s)
MaskGrid(x, s) ==
    ReshapeData(TransposeData(PreHead(x), 2, 3), <<x.shape[1], 1, s, s>>)

Grids == ((1..MaxSide) \X (1..MaxSide)) \cup {<<Grid14, Grid14>>}
MaskSides == (1..MaxSide) \cup {Grid14}

InitLayout ==
    /\ \E B \in 1..MaxBatch, C \in 1..MaxChan, g \in Grids :
          unit = [name |-> "layout", B |-> B, C |-> C, H |-> g[1], W |-> g[2],
                  form |-> "tokens", x |-> Tokens(B, g[1] * g[2], C)]
    /\ res = <<>>
    /\ DecoderIdle

\* one conversion at a code site; the caller keeps the result, and goes on
\* with it unless the conversion raised
Convert(op, from, to, y) ==
    /\ unit.name = "layout"
    /\ unit.form = from
    /\ Len(res) < MaxOps
    /\ res' = Append(res, [op |-> op, form |-> to, x |-> y])
    /\ unit' = IF IsT(y) /\ to # "mask" THEN [unit EXCEPT !.form = to, !.x = y] ELSE unit
    /\ UNCHANGED dvars

BlockToGrid == Convert("Block.grid", "tokens", "grid", BlockGrid(unit.x, unit.H, unit.W))

BlockToTokens == Convert("Block.tokens", "grid", "tokens", BlockTokens(unit.x))

PatchEmbedFlatten == Convert("PatchEmbed.tokens", "grid", "tokens", PatchEmbedTokens(unit.x))

FirstToGrid == Convert("first.grid", "tokens", "grid", FirstGrid(unit.x))

InterStageToGrid == Convert("stage.grid", "tokens", "grid", InterStageGrid(unit.x, unit.H, unit.W))

MaskToGrid(s) == Convert("mask", "tokens", "mask", MaskGrid(unit.x, s))

NextLayout ==
    \/ BlockToGrid
    \/ BlockToTokens
    \/ PatchEmbedFlatten
    \/ FirstToGrid
    \/ InterStageToGrid
    \/ \E s \in MaskSides : MaskToGrid(s)

SpecLayout == InitLayout /\ [][NextLayout]_vars

\* every pixel (h, w) of a grid of width W holds token h * W + w of its sample
RowMajorGrid(g, W) ==
    \A b \in 0..(g.shape[1] - 1), c \in 0..(g.shape[2] - 1),
       h \in 0..(g.shape[3] - 1), w \in 0..(g.shape[4] - 1) :
        At(g, <<b, c, h, w>>) = <<b, h * W + w>>

\* every token is where it started
TokensInPlace(t) ==
    \A b \in 0..(t.shape[1] - 1), n \in 0..(t.shape[2] - 1), c \in 0..(t.shape[3] - 1) :
        At(t, <<b, n, c>>) = <<b, n>>

\* C13: token n of a stage with grid H x W sits at pixel (n div W, n mod W)
\* in every grid the decoder builds from the tokens (Block, the first and the
\* inter-stage reshape), tokens rebuilt from a grid (Block, PatchEmbed) are
\* back in place, and a mask reshaped from the tokens of a square stage grid
\* has that grid's side and holds token n at the same pixel.
C13_RowMajorEverywhere ==
    unit.name = "layout" =>
        \A i \in 1..Len(res) :
            IsT(res[i].x) =>
                /\ res[i].form = "grid" =>
                      /\ res[i].x.shape = <<unit.B, unit.C, unit.H, unit.W>>
                      /\ RowMajorGrid(res[i].x, unit.W)
                /\ res[i].form = "tokens" =>
                      /\ res[i].x.shape = <<unit.B, unit.H * unit.W, unit.C>>
                      /\ TokensInPlace(res[i].x)
                /\ (res[i].form = "mask" /\ unit.H = unit.W) =>
                      /\ res[i].x.shape = <<unit.B, 1, unit.H, unit.W>>
                      /\ RowMajorGrid(res[i].x, unit.W)

\* a grid that is not square, with several channels, was built between two
\* stages, turned back into tokens, and built again inside a Block
C13_Witness ==
    /\ unit.name = "layout"
    /\ unit.C >= 2 /\ unit.H >= 2 /\ unit.W >= 2 /\ unit.H # unit.W
    /\ Len(res) = 3
    /\ res[1].op = "stage.grid" /\ IsT(res[1].x)
    /\ res[2].op \in {"Block.tokens", "PatchEmbed.tokens"} /\ IsT(res[2].x)
    /\ res[3].op = "Block.grid" /\ IsT(res[3].x)

(***************************************************************************)
(* dataset.py: ImageData.__getitem__ behind get_loader                     *)
(***************************************************************************)
ScaleSize == 256

\* a PIL image: which file it comes from, its mode, its (width, height) and
\* the geometric operations applied to it so far
Open(file, mode, wh) ==
    [file |-> file, mode |-> mode, size |-> wh, interp |-> "none", ops |-> <<>>]

\* trans.Scale(size, interpolation) with a (w, h) pair: resize to exactly that size
Scale(p, size, interp) ==
    [p EXCEPT !.size = size, !.interp = interp,
              !.ops = Append(@, [op |-> "scale", at |-> size])]

\* Image.crop((left, upper, right, lower))
Crop(p, box) ==
    [p EXCEPT !.size = <<box[3] - box[1], box[4] - box[2]>>,
              !.ops = Append(@, [op |-> "crop", at |-> box])]

\* Image.transpose(Image.FLIP_LEFT_RIGHT)
FlipLeftRight(p) == [p EXCEPT !.ops = Append(@, [op |-> "flip", at |-> <<>>])]

\* transforms.ToTensor (and Normalize, which keeps the shape): (C, height, width)
ToTensor(p) ==
    [kind |-> "t", shape |-> <<IF p.mode = "RGB" THEN 3 ELSE 1, p.size[2], p.size[1]>>,
     src |-> {p.file}, ops |-> p.ops]

\* random.randint(a, b): the values it may return; none when b < a (ValueError)
RandInt(a, b) == a..b

\* line 169: a crop is taken when neither side already has the target size
CropTaken(p, s) == p.size[1] # s /\ p.size[2] # s

\* the augmentation with the flip applied to the image only
Augment_FlipImageOnly(img, label, s, x1, y1, flip) ==
    LET box == <<x1, y1, x1 + s, y1 + s>>
        ci  == IF CropTaken(img, s) THEN Crop(img, box) ELSE img
        cl  == IF CropTaken(img, s) THEN Crop(label, box) ELSE label
    IN  [img |-> IF flip THEN FlipLeftRight(ci) ELSE ci, label |-> cl]

\* lines 168-178: random crop and random flip of the image and the label
Augment(img, label, s, x1, y1, flip) ==
    LET box == <<x1, y1, x1 + s, y1 + s>>
        ci  == IF CropTaken(img, s) THEN Crop(img, box) ELSE img
        cl  == IF CropTaken(img, s) THEN Crop(label, box) ELSE label
    IN  [img   |-> IF flip THEN FlipLeftRight(ci) ELSE ci,
         label |-> IF flip THEN FlipLeftRight(cl) ELSE cl]

\* get_loader lines 212-227: Scale((k, k), NEAREST) then ToTensor
LabelTransform(p, k) == ToTensor(Scale(p, <<k, k>>, "nearest"))

\* get_loader: the ImageData it constructs for img_size and mode
GetLoader(img_size, mode, image_wh, label_wh) ==
    [name |-> "ImageData", mode |-> mode,
     img_size |-> IF mode = "train" THEN img_size ELSE 0,
     scale_size |-> IF mode = "train" THEN ScaleSize ELSE 0,
     test_size |-> IF mode = "train" THEN 0 ELSE img_size,
     image_wh |-> image_wh, label_wh |-> label_wh]

\* lines 157-166: both files opened and scaled to scale_size x scale_size
ScaledImage(u) ==
    Scale(Open("image", "RGB", u.image_wh), <<u.scale_size, u.scale_size>>, "bilinear")

ScaledLabel(u) ==
    Scale(Open("label", "L", u.label_wh), <<u.scale_size, u.scale_size>>, "nearest")

\* lines 157-189 for one outcome of the random choices
TrainItem(u, x1, y1, flip) ==
    LET a == Augment(ScaledImage(u), ScaledLabel(u), u.img_size, x1, y1, flip)
    IN  [ok |-> TRUE, raised |-> "none",
         crop |-> CropTaken(ScaledImage(u), u.img_size), x1 |-> x1, y1 |-> y1, flip |-> flip,
         handed |-> a,
         ret |-> <<ToTensor(a.img), ToTensor(a.label),
                   LabelTransform(a.label, u.img_size \div 16),
                   LabelTransform(a.label, u.img_size \div 8),
                   LabelTransform(a.label, u.img_size \div 4),
                   LabelTransform(a.label, u.img_size \div 2)>>]

DataImgSizes == {224, 250, 256, 260}
DiskSizes == {<<320, 240>>, <<256, 256>>, <<200, 300>>}

InitDataset ==
    /\ \E s \in DataImgSizes, mode \in {"train", "test"}, iw \in DiskSizes, lw \in DiskSizes :
          unit = GetLoader(s, mode, iw, lw)
    /\ res = <<>>
    /\ DecoderIdle

\* __getitem__ in train mode
GetItemTrain ==
    /\ unit.name = "ImageData"
    /\ unit.mode = "train"
    /\ res = <<>>
    /\ LET img  == ScaledImage(unit)
           crop == CropTaken(img, unit.img_size)
           xs   == IF crop THEN RandInt(0, img.size[1] - unit.img_size) ELSE {0}
           ys   == IF crop THEN RandInt(0, img.size[2] - unit.img_size) ELSE {0}
       IN  IF xs = {} \/ ys = {}
           THEN res' = <<[ok |-> FALSE, raised |-> "ValueError"]>>
           ELSE \E x1 \in xs, y1 \in ys, flip \in BOOLEAN :
                    res' = <<TrainItem(unit, x1, y1, flip)>>
    /\ UNCHANGED unit
    /\ UNCHANGED dvars

\* __getitem__ in test mode: lines 157, 192-194 with the transform of lines 230-234
GetItemTest ==
    /\ unit.name = "ImageData"
    /\ unit.mode = "test"
    /\ res = <<>>
    /\ res' = <<[ok |-> TRUE, raised |-> "none",
                 ret |-> <<ToTensor(Scale(Open("image", "RGB", unit.image_wh),
                                          <<unit.test_size, unit.test_size>>, "bilinear")),
                           unit.image_wh[1], unit.image_wh[2], "path">>]>>
    /\ UNCHANGED unit
    /\ UNCHANGED dvars

NextDataset == GetItemTrain \/ GetItemTest

SpecDataset == InitDataset /\ [][NextDataset]_vars

\* the sides of the five labels in the order they are returned
LabelSides(s) == <<s, s \div 16, s \div 8, s \div 4, s \div 2>>

\* one image tensor and five label tensors, all from one label image that
\* went through the same crop window and the same flip as the image, both
\* img_size x img_size when handed to the transforms
SameAugmentation(r, s) ==
    /\ r.ok
    /\ Len(r.ret) = 6
    /\ r.ret[1].src = {"image"}
    /\ r.ret[1].shape = <<3, s, s>>
    /\ r.ret[1].ops = r.handed.img.ops
    /\ r.handed.img.size = <<s, s>>
    /\ r.handed.label.size = <<s, s>>
    /\ r.handed.img.ops = r.handed.label.ops
    /\ r.crop => \E k \in 1..Len(r.handed.label.ops) :
                    r.handed.label.ops[k] = [op |-> "crop",
                                             at |-> <<r.x1, r.y1, r.x1 + s, r.y1 + s>>]
    /\ r.flip = (\E k \in 1..Len(r.handed.label.ops) : r.handed.label.ops[k].op = "flip")
    /\ \A k \in 1..5 :
          /\ r.ret[k + 1].src = {"label"}
          /\ r.ret[k + 1].shape = <<1, LabelSides(s)[k], LabelSides(s)[k]>>
          /\ r.ret[k + 1].ops =
                IF k = 1 THEN r.handed.label.ops
                ELSE Append(r.handed.label.ops,
                            [op |-> "scale", at |-> <<LabelSides(s)[k], LabelSides(s)[k]>>])

\* C14 as stated: in train mode __getitem__ returns the image tensor and the
\* five label tensors with the same augmentation, for every outcome of the
\* random choices and whatever img_size the loader was built with.
C14_EveryImgSize ==
    (unit.name = "ImageData" /\ unit.mode = "train") =>
        \A i \in 1..Len(res) : SameAugmentation(res[i], unit.img_size)

\* C14 amended: that holds when img_size is at most the scale size 256; for a
\* larger img_size __getitem__ raises ValueError and returns nothing.
C14_ImgSizeUpToScaleSize ==
    (unit.name = "ImageData" /\ unit.mode = "train") =>
        \A i \in 1..Len(res) :
            IF unit.img_size <= unit.scale_size
            THEN SameAugmentation(res[i], unit.img_size)
            ELSE ~res[i].ok /\ res[i].raised = "ValueError"

\* a sample that was cropped away from the corner and flipped
C14_Witness ==
    /\ unit.name = "ImageData" /\ unit.mode = "train"
    /\ unit.image_wh # unit.label_wh
    /\ Len(res) = 1
    /\ res[1].ok /\ res[1].crop /\ res[1].flip
    /\ res[1].x1 > 0 /\ res[1].y1 > res[1].x1

====
